---- MODULE Spec2Model ----
(***************************************************************************)
(* Model of the CBOM comparison analyzer of cbombench                      *)
(* (src/src/cbom_analyzer.py): the normalizer analyze_single_cbom, the     *)
(* batch analyze_all_cboms, the join of generate_comparison_report and     *)
(* the per-tool statistics of _calculate_statistics.                       *)
(*                                                                         *)
(* JSON values are modelled by tagged records.  A field k names the JSON   *)
(* kind of the value; the fields that do not apply to a kind hold a fixed  *)
(* filler so that all records of one sort have the same fields.            *)
(***************************************************************************)
EXTENDS Integers, Sequences, FiniteSets, TLC

\* ------------------------------------------------------------------ bounds
\* longest "components" array (and longest string / largest object standing
\* where the array is expected)
MaxComps == 2
\* number of scan results after the first one in a cbomkit payload list
MaxLater == 1

\* --------------------------------------------------------------- constants
TOOL_NAMES == <<"cbomkit", "cdxgen", "deepseek">>

Tools == {TOOL_NAMES[i] : i \in DOMAIN TOOL_NAMES}

\* tool identifiers handed to analyze_single_cbom: the three names, two
\* spellings that differ from a name only by case, and an unknown tool
ToolIds == Tools \cup {"CDXGEN", "CBOMkit", "syft"}

\* str.lower() on the tool identifiers of the model
lower(t) ==
    CASE t = "CDXGEN" -> "cdxgen"
      [] t = "CBOMkit" -> "cbomkit"
      [] OTHER -> t

\* the tools whose payload is a flat object: {"cdxgen", "deepseek"}
FlatTools == {"cdxgen", "deepseek"}

\* ------------------------------------------------------------ JSON values
\* value of a "type" / "assetType" key: the key is absent, it holds a
\* string, or it holds an array (a value that cannot be a Counter key)
ABSENT == "<absent>"
UNHASHABLE == "<list>"
TypeNames == {"algorithm", "library"}
TypeValues == {ABSENT, UNHASHABLE} \cup TypeNames

\* an entry of a components array: a JSON object with optional "type" and
\* optional "cryptoProperties" (absent, null, or an object with optional
\* "assetType"), or a value that is not an object
NonDictComp == [k |-> "scalar", type |-> ABSENT, cp |-> "absent", assetType |-> ABSENT]

DictComps ==
    {[k |-> "dict", type |-> t, cp |-> "absent", assetType |-> ABSENT] : t \in TypeValues}
    \cup {[k |-> "dict", type |-> t, cp |-> "null", assetType |-> ABSENT] : t \in TypeValues}
    \cup {[k |-> "dict", type |-> t, cp |-> "dict", assetType |-> a] :
            t \in TypeValues, a \in {ABSENT, "algorithm", "protocol"}}

Comps == {NonDictComp} \cup DictComps

SeqsUpTo(S, n) == UNION {[1..m -> S] : m \in 0..n}

\* value under a "components" key.  k = "absent": no such key; "null";
\* "scalar": a number or a boolean; "str": a string, items are its
\* characters; "obj": an object, items are its keys; "list": an array.
CompValue(k, items) == [k |-> k, items |-> items]

NoComponents == CompValue("absent", <<>>)

CompValues ==
    {NoComponents, CompValue("null", <<>>), CompValue("scalar", <<>>)}
    \cup {CompValue("list", s) : s \in SeqsUpTo(Comps, MaxComps)}
    \cup {CompValue(k, [i \in 1..n |-> NonDictComp]) : k \in {"str", "obj"}, n \in 0..MaxComps}

\* value under the "bom" key of a scan result
Boms ==
    {[k |-> k, components |-> NoComponents] : k \in {"absent", "null", "scalar"}}
    \cup {[k |-> "dict", components |-> c] : c \in CompValues}

\* element of a cbomkit payload list: a scan result object, or not an object
ScanResults ==
    {[k |-> "scalar", bom |-> [k |-> "absent", components |-> NoComponents]]}
    \cup {[k |-> "dict", bom |-> b] : b \in Boms}

\* scan results that may follow the first one
OneComp(t) == CompValue("list", <<[k |-> "dict", type |-> t, cp |-> "absent", assetType |-> ABSENT]>>)

LaterResults ==
    {[k |-> "dict", bom |-> [k |-> "dict", components |-> OneComp("library")]],
     [k |-> "dict", bom |-> [k |-> "absent", components |-> NoComponents]]}

\* a parsed CBOM file: an object, an array, or any other JSON value
FlatPayload(c) == [k |-> "dict", components |-> c, elems |-> <<>>]

ListPayload(es) == [k |-> "list", components |-> NoComponents, elems |-> es]

ScalarPayload == [k |-> "scalar", components |-> NoComponents, elems |-> <<>>]

Payloads ==
    {ScalarPayload, ListPayload(<<>>)}
    \cup {FlatPayload(c) : c \in CompValues}
    \cup {ListPayload(<<e>> \o l) : e \in ScanResults, l \in SeqsUpTo(LaterResults, MaxLater)}

\* ------------------------------------------------- analyze_single_cbom
\* the keys a component_types Counter can hold; a Counter is modelled as a
\* function from these keys to its counts, 0 for a key it does not hold
CounterKeys == TypeNames \cup {"protocol", "unknown"}

Counter == [key \in CounterKeys |-> 0]

CounterSum(c) == c["algorithm"] + c["library"] + c["protocol"] + c["unknown"]

\* texts of the exceptions the analysis of one file can raise
ERR_JSON == "JSONDecodeError: Expecting value"
ERR_NOT_ITERABLE == "TypeError: object is not iterable"
ERR_NO_GET == "AttributeError: 'NoneType' object has no attribute 'get'"
ERR_UNHASHABLE == "TypeError: unhashable type: 'list'"
Errors == {ERR_JSON, ERR_NOT_ITERABLE, ERR_NO_GET, ERR_UNHASHABLE}

\* outcome of a call: a returned analysis, or a raised exception
Return(total, empty, types) ==
    [raised |-> FALSE, total_components |-> total, is_empty |-> empty,
     component_types |-> types, error |-> ""]

Raise(e) ==
    [raised |-> TRUE, total_components |-> 0, is_empty |-> TRUE,
     component_types |-> Counter, error |-> e]

\* dict.get("components", []): the value under the key, [] without the key
GetComponents(c) == IF c.k = "absent" THEN CompValue("list", <<>>) ELSE c

\* whether the body of the try block of the cbomkit branch raises: it
\* tests isinstance, indexes a non-empty list and calls get on values it
\* has tested to be dicts, so no JSON value makes it raise
TryBlockRaises(cbom_data) == FALSE

\* an extraction that reads the last scan result of the list, not the first
ExtractComponents_LastElement(cbom_data, tool_name) ==
    IF lower(tool_name) \in FlatTools
    THEN IF cbom_data.k = "dict"
         THEN GetComponents(cbom_data.components)
         ELSE CompValue("list", <<>>)
    ELSE IF cbom_data.k = "list" /\ Len(cbom_data.elems) > 0
         THEN LET last == cbom_data.elems[Len(cbom_data.elems)]
                  bom == IF last.k = "dict"
                         THEN last.bom
                         ELSE [k |-> "null", components |-> NoComponents]
              IN  IF bom.k = "dict"
                  THEN GetComponents(bom.components)
                  ELSE CompValue("list", <<>>)
         ELSE CompValue("list", <<>>)

\* the component extraction logic: the value bound to `components`
ExtractComponents(cbom_data, tool_name) ==
    IF lower(tool_name) \in FlatTools
    THEN IF cbom_data.k = "dict"
         THEN GetComponents(cbom_data.components)
         ELSE CompValue("list", <<>>)
    ELSE IF TryBlockRaises(cbom_data)
         THEN IF cbom_data.k = "dict"
              THEN GetComponents(cbom_data.components)
              ELSE CompValue("list", <<>>)
         ELSE IF cbom_data.k = "list" /\ Len(cbom_data.elems) > 0
              THEN LET first == cbom_data.elems[1]
                       bom == IF first.k = "dict"
                              THEN first.bom
                              ELSE [k |-> "null", components |-> NoComponents]
                   IN  IF bom.k = "dict"
                       THEN GetComponents(bom.components)
                       ELSE CompValue("list", <<>>)
              ELSE CompValue("list", <<>>)

\* a tally that prefers "type" to cryptoProperties.assetType
CompType_TypeFirst(comp, tool_name) ==
    IF lower(tool_name) \notin FlatTools /\ comp.k = "dict"
    THEN IF comp.cp = "null"
         THEN ERR_NO_GET
         ELSE IF comp.type # ABSENT
              THEN comp.type
              ELSE IF comp.cp = "dict" /\ comp.assetType # ABSENT
                   THEN comp.assetType
                   ELSE "unknown"
    ELSE IF comp.k = "dict" /\ comp.type # ABSENT
         THEN comp.type
         ELSE "unknown"

\* the key one component is tallied under, or the text of the exception
\* that computing it raises
CompType(comp, tool_name) ==
    IF lower(tool_name) \notin FlatTools /\ comp.k = "dict"
    THEN IF comp.cp = "null"
         THEN ERR_NO_GET
         ELSE IF comp.cp = "dict" /\ comp.assetType # ABSENT
              THEN comp.assetType
              ELSE IF comp.type = ABSENT THEN "unknown" ELSE comp.type
    ELSE IF comp.k = "dict" /\ comp.type # ABSENT
         THEN comp.type
         ELSE "unknown"

\* component_types[comp_type] += 1 raises for a key that cannot be hashed
TallyError(t) == IF t = UNHASHABLE THEN ERR_UNHASHABLE ELSE t

Min(S) == CHOOSE x \in S : \A y \in S : x <= y

analyze_single_cbom(cbom_data, tool_name) ==
    LET components == ExtractComponents(cbom_data, tool_name)
    IN  IF components.k \in {"null", "scalar"}
        THEN Raise(ERR_NOT_ITERABLE)
        ELSE LET items == components.items
                 types == [i \in DOMAIN items |-> CompType(items[i], tool_name)]
                 failing == {i \in DOMAIN items : TallyError(types[i]) \in Errors}
             IN  IF failing # {}
                 THEN Raise(TallyError(types[Min(failing)]))
                 ELSE Return(Len(items), Len(items) = 0,
                             [key \in CounterKeys |->
                                 Cardinality({i \in DOMAIN items : types[i] = key})])

\* ------------------------------------------------------ the file system
\* the repositories whose CBOMs are stored, in the order the model lists them
REPO_ORDER == <<"r1", "r2">>

Repos == {REPO_ORDER[i] : i \in DOMAIN REPO_ORDER}

\* a file name is its stem and its extension: os.path.splitext
FileName(stem, ext) == [stem |-> stem, ext |-> ext]

\* os.listdir order of a tool directory (the model lists in this order)
FILE_ORDER == <<FileName("r1", ".json"), FileName("r2", ".json"), FileName("r1", ".txt")>>

FileNames == {FILE_ORDER[i] : i \in DOMAIN FILE_ORDER}

\* f.endswith('.json')
endswith_json(f) == f.ext = ".json"

\* os.path.splitext(cbom_file)[0]
splitext0(f) == f.stem

\* an optional value: None is the empty set, a value v is {v}
None == {}

Some(v) == {v}

TheValue(o) == CHOOSE v \in o : TRUE

\* content of a file: text that json.load rejects, or a JSON value
BadJson == [valid |-> FALSE, data |-> ScalarPayload]

Json(p) == [valid |-> TRUE, data |-> p]

DictComp(t, cp, a) == [k |-> "dict", type |-> t, cp |-> cp, assetType |-> a]

\* {"components": [{"type": "algorithm"}, {"type": "library",
\*   "cryptoProperties": {"assetType": "protocol"}}]}
TwoComponents ==
    CompValue("list", <<DictComp("algorithm", "absent", ABSENT),
                        DictComp("library", "dict", "protocol")>>)

\* [{"bom": {"components": c}}]
ScanOf(c) == ListPayload(<<[k |-> "dict", bom |-> [k |-> "dict", components |-> c]]>>)

\* the file contents the batch is run on: per tool directory, text that is
\* not JSON, well-formed payloads, and payloads whose extraction or tally
\* fails; a file that is not .json holds a well-formed payload
FileContents(tool, f) ==
    IF ~endswith_json(f)
    THEN {Json(FlatPayload(TwoComponents))}
    ELSE IF tool = "cbomkit"
         THEN {BadJson,
               Json(ScanOf(TwoComponents)),
               Json(ScanOf(CompValue("list", <<DictComp("algorithm", "null", ABSENT)>>)))}
         ELSE {BadJson,
               Json(FlatPayload(NoComponents)),
               Json(FlatPayload(TwoComponents)),
               Json(FlatPayload(CompValue("null", <<>>))),
               Json(FlatPayload(CompValue("obj", <<NonDictComp>>)))}

\* --------------------------------------------------- analyze_all_cboms
\* an analysis record of comparison_data; the 'error' key is optional
Analysis(total, empty, types, error) ==
    [total_components |-> total, is_empty |-> empty,
     component_types |-> types, error |-> error]

\* a handler that lets the JSON error of json.load through
Caught_OnlyAnalysisErrors(e) == e \in {ERR_NOT_ITERABLE, ERR_NO_GET, ERR_UNHASHABLE}

\* `except Exception`: every exception the analysis of a file raises is
\* caught
Caught(e) == TRUE

\* an error record that is not flagged empty
ErrorRecord_NotEmpty(e) == Analysis(0, FALSE, Counter, Some(e))

\* the record stored in the except branch
ErrorRecord(e) == Analysis(0, TRUE, Counter, Some(e))

\* the body of the loop over the files: what one file does to
\* comparison_data, or the exception that leaves the loop
analyze_file(content, tool) ==
    LET r == IF content.valid
             THEN analyze_single_cbom(content.data, tool)
             ELSE Raise(ERR_JSON)
    IN  IF ~r.raised
        THEN [raised |-> FALSE,
              record |-> Analysis(r.total_components, r.is_empty, r.component_types, None)]
        ELSE IF Caught(r.error)
             THEN [raised |-> FALSE, record |-> ErrorRecord(r.error)]
             ELSE [raised |-> TRUE, record |-> ErrorRecord(r.error)]

\* cbom_files of one tool directory, in listing order
ListJson(tool, files) ==
    SelectSeq(FILE_ORDER, LAMBDA f : <<tool, f>> \in DOMAIN files /\ endswith_json(f))

\* a loop over the tools that ends at the first missing directory
RECURSIVE WorkList_Break(_, _, _)
WorkList_Break(tools, dirs, files) ==
    IF tools = <<>> \/ Head(tools) \notin dirs
    THEN <<>>
    ELSE LET tool == Head(tools)
             names == ListJson(tool, files)
         IN  [i \in DOMAIN names |-> <<tool, names[i]>>]
             \o WorkList_Break(Tail(tools), dirs, files)

\* the (tool, file) pairs the two loops visit, in order; a tool whose
\* directory does not exist is skipped
RECURSIVE WorkList(_, _, _)
WorkList(tools, dirs, files) ==
    IF tools = <<>>
    THEN <<>>
    ELSE LET tool == Head(tools)
             names == IF tool \in dirs THEN ListJson(tool, files) ELSE <<>>
         IN  [i \in DOMAIN names |-> <<tool, names[i]>>]
             \o WorkList(Tail(tools), dirs, files)

\* self.comparison_data[repo_name][tool] = record
SetRecord(cd, repo_name, tool, record) ==
    [p \in DOMAIN cd \cup {<<repo_name, tool>>} |->
        IF p = <<repo_name, tool>> THEN record ELSE cd[p]]

RECURSIVE AnalyzeLoop(_, _, _)
AnalyzeLoop(work, cd, files) ==
    IF work = <<>>
    THEN [raised |-> FALSE, data |-> cd]
    ELSE LET tool == Head(work)[1]
             cbom_file == Head(work)[2]
             repo_name == splitext0(cbom_file)
             out == analyze_file(files[<<tool, cbom_file>>], tool)
         IN  IF out.raised
             THEN [raised |-> TRUE, data |-> cd]
             ELSE AnalyzeLoop(Tail(work), SetRecord(cd, repo_name, tool, out.record), files)

analyze_all_cboms(cd, dirs, files) ==
    AnalyzeLoop(WorkList(TOOL_NAMES, dirs, files), cd, files)

\* ------------------------------------------------- metrics and sizes
\* a repository URL, as _parse_github_url reads it: form "https" has
\* github.com in its network location and parts are the segments of its
\* path; form "ssh" is git@github.com:<path> and parts are the pieces of
\* path.split('/'); form "other" is not a GitHub URL
Url(form, parts) == [form |-> form, parts |-> parts]

Urls ==
    {Url("https", <<"o", "r1">>),
     Url("https", <<"o", "r2.git">>),
     Url("ssh", <<"o", "r1", "tree">>)}

\* repo[:-4] if repo.endswith('.git')
StripGit(repo) == IF repo = "r2.git" THEN "r2" ELSE repo

\* (owner, repo), (None, None), or the ValueError of unpacking a split
\* that has not exactly two pieces
_parse_github_url(repo_url) ==
    IF repo_url.form = "https"
    THEN IF Len(repo_url.parts) >= 2
         THEN [raised |-> FALSE, owner |-> Some(repo_url.parts[1]),
               repo |-> Some(StripGit(repo_url.parts[2]))]
         ELSE [raised |-> FALSE, owner |-> None, repo |-> None]
    ELSE IF repo_url.form = "ssh"
         THEN IF Len(repo_url.parts) = 2
              THEN [raised |-> FALSE, owner |-> Some(repo_url.parts[1]),
                    repo |-> Some(StripGit(repo_url.parts[2]))]
              ELSE [raised |-> TRUE, owner |-> None, repo |-> None]
         ELSE [raised |-> FALSE, owner |-> None, repo |-> None]

\* what the GitHub API knows: size in KB and bytes of Java per repository
GitHubRepos ==
    [r \in {<<"o", "r1">>, <<"o", "r2">>} |->
        IF r[2] = "r1" THEN [size |-> 120, java_bytes |-> 5000]
                       ELSE [size |-> 80, java_bytes |-> 0]]

\* the environment of a get_repo_sizes call: whether GITHUB_TOKEN is set
\* and whether the requests succeed
Apis == {[token |-> FALSE, up |-> TRUE], [token |-> TRUE, up |-> FALSE],
         [token |-> TRUE, up |-> TRUE]}

Sizes(total, java) == [total_size |-> total, java_size |-> java]

get_repo_sizes(repo_url, api) ==
    IF ~api.token
    THEN [raised |-> FALSE, sizes |-> Sizes(None, None)]
    ELSE LET parsed == _parse_github_url(repo_url)
         IN  IF parsed.raised
             THEN [raised |-> TRUE, sizes |-> Sizes(None, None)]
             ELSE IF parsed.owner = None \/ parsed.repo = None
                  THEN [raised |-> FALSE, sizes |-> Sizes(None, None)]
                  ELSE LET key == <<TheValue(parsed.owner), TheValue(parsed.repo)>>
                       IN  IF ~api.up \/ key \notin DOMAIN GitHubRepos
                           THEN [raised |-> FALSE, sizes |-> Sizes(None, None)]
                           ELSE LET java_bytes == GitHubRepos[key].java_bytes
                                IN  [raised |-> FALSE,
                                     sizes |-> Sizes(Some(GitHubRepos[key].size),
                                                     IF java_bytes > 0
                                                     THEN Some(java_bytes \div 1024)
                                                     ELSE None)]

\* an entry of durations.json under a repository and a tool: an object
\* with optional 'duration' and 'url', or a value that is not an object
ToolEntry(tool, duration, url) ==
    [tool |-> tool, k |-> "dict", duration |-> duration, url |-> url]

ScalarEntry(tool) == [tool |-> tool, k |-> "scalar", duration |-> None, url |-> None]

\* the tool entries of one repository, in file order
ToolEntryLists ==
    {<<>>,
     <<ToolEntry("cbomkit", None, Some(Url("https", <<"o", "r1">>)))>>,
     <<ToolEntry("cbomkit", Some(4), None),
       ToolEntry("cdxgen", Some(2), Some(Url("https", <<"o", "r1">>)))>>,
     <<ToolEntry("cbomkit", Some(4), Some(Url("https", <<"o", "r1">>))),
       ToolEntry("deepseek", Some(8), Some(Url("https", <<"o", "r1">>)))>>,
     <<ScalarEntry("cbomkit"),
       ToolEntry("cdxgen", Some(2), Some(Url("https", <<"o", "r2.git">>)))>>}
    \cup {<<ToolEntry("cdxgen", Some(2), Some(u))>> : u \in Urls}

\* the tool entries of a repository that follows another one in the file
SecondEntryLists ==
    {<<ToolEntry("cbomkit", None, Some(Url("https", <<"o", "r1">>)))>>,
     <<ToolEntry("cdxgen", Some(6), Some(Url("https", <<"o", "r1">>)))>>,
     <<ToolEntry("cdxgen", Some(6), Some(Url("https", <<"o", "r2.git">>)))>>}

RepoEntry(repo, tools) == [repo |-> repo, tools |-> tools]

\* durations.json: absent, unreadable (open or json.load raises IOError or
\* JSONDecodeError), or an object of repositories in file order
MetricsFile(k, data) == [k |-> k, data |-> data]

MetricsFiles ==
    {MetricsFile("absent", <<>>), MetricsFile("unreadable", <<>>), MetricsFile("ok", <<>>)}
    \cup {MetricsFile("ok", <<RepoEntry(r, t)>>) : r \in Repos, t \in ToolEntryLists}
    \cup UNION {{MetricsFile("ok", <<RepoEntry(r1, t1), RepoEntry(r2, t2)>>) :
                    r2 \in Repos \ {r1}, t1 \in ToolEntryLists, t2 \in SecondEntryLists} :
                r1 \in Repos}

_load_execution_times(file) == IF file.k = "ok" THEN file.data ELSE <<>>

\* next((tool_data.get('url') for tool_data in repo_data.values()
\*       if isinstance(tool_data, dict)), None)
FirstUrl(tools) ==
    LET dicts == SelectSeq(tools, LAMBDA e : e.k = "dict")
    IN  IF dicts = <<>> THEN None ELSE Head(dicts).url

RECURSIVE FetchLoop(_, _, _, _)
FetchLoop(entries, repo_sizes, processed_urls, api) ==
    IF entries = <<>>
    THEN [raised |-> FALSE, repo_sizes |-> repo_sizes, processed_urls |-> processed_urls]
    ELSE LET repo_name == Head(entries).repo
             url == FirstUrl(Head(entries).tools)
         IN  IF url # None /\ TheValue(url) \notin processed_urls
             THEN LET got == get_repo_sizes(TheValue(url), api)
                  IN  IF got.raised
                      THEN [raised |-> TRUE, repo_sizes |-> repo_sizes,
                            processed_urls |-> processed_urls]
                      ELSE FetchLoop(Tail(entries),
                                     [r \in DOMAIN repo_sizes \cup {repo_name} |->
                                         IF r = repo_name THEN got.sizes ELSE repo_sizes[r]],
                                     processed_urls \cup {TheValue(url)}, api)
             ELSE FetchLoop(Tail(entries), repo_sizes, processed_urls, api)

_fetch_all_repo_sizes(execution_times, api) ==
    FetchLoop(execution_times, <<>>, {}, api)

\* ---------------------------------------- generate_comparison_report
\* iteration order of comparison_data: by repository, then by tool (the
\* code iterates in insertion order; no row order is read anywhere)
RECURSIVE Flatten(_)
Flatten(ss) == IF ss = <<>> THEN <<>> ELSE Head(ss) \o Flatten(Tail(ss))

AllPairs ==
    Flatten([i \in DOMAIN REPO_ORDER |->
                [j \in DOMAIN TOOL_NAMES |-> <<REPO_ORDER[i], TOOL_NAMES[j]>>]])

\* an inner loop that ends after the first tool of each repository
Items_FirstTool(cd) ==
    SelectSeq(AllPairs,
              LAMBDA p : /\ p \in DOMAIN cd
                         /\ \A j \in DOMAIN TOOL_NAMES :
                               <<p[1], TOOL_NAMES[j]>> \in DOMAIN cd
                               => \E i \in 1..j : TOOL_NAMES[i] = p[2])

Items(cd) == SelectSeq(AllPairs, LAMBDA p : p \in DOMAIN cd)

\* execution_times[repo_name][tool].get('duration'): a KeyError without
\* an entry
ExecTime_Index(execution_times, repo_name, tool) ==
    LET repos == SelectSeq(execution_times, LAMBDA e : e.repo = repo_name)
        tools == IF repos = <<>> THEN <<>> ELSE Head(repos).tools
        found == SelectSeq(tools, LAMBDA e : e.tool = tool)
    IN  IF found = <<>>
        THEN [raised |-> TRUE, value |-> None]
        ELSE IF Head(found).k = "dict"
             THEN [raised |-> FALSE, value |-> Head(found).duration]
             ELSE [raised |-> TRUE, value |-> None]

\* execution_times.get(repo_name, {}).get(tool, {}).get('duration'): the
\* duration, None, or the AttributeError of calling get on a tool entry
\* that is not an object
ExecTime(execution_times, repo_name, tool) ==
    LET repos == SelectSeq(execution_times, LAMBDA e : e.repo = repo_name)
        tools == IF repos = <<>> THEN <<>> ELSE Head(repos).tools
        found == SelectSeq(tools, LAMBDA e : e.tool = tool)
    IN  IF found = <<>>
        THEN [raised |-> FALSE, value |-> None]
        ELSE IF Head(found).k = "dict"
             THEN [raised |-> FALSE, value |-> Head(found).duration]
             ELSE [raised |-> TRUE, value |-> None]

\* repo_sizes.get(repo_name, (None, None))
SizeOf(repo_sizes, repo_name) ==
    IF repo_name \in DOMAIN repo_sizes THEN repo_sizes[repo_name] ELSE Sizes(None, None)

\* one flat record of `results`
Row(repo_name, tool, data, exec_time, sizes) ==
    [Repository |-> repo_name, Tool |-> tool,
     Total_Components |-> data.total_components,
     Is_Empty |-> data.is_empty,
     Execution_Time |-> exec_time,
     Component_Types |-> data.component_types,
     Repository_Size |-> sizes.total_size,
     Java_Size |-> sizes.java_size]

\* the loops that combine analysis results, execution times and sizes
JoinResults(cd, execution_times, repo_sizes) ==
    LET items == Items(cd)
        times == [i \in DOMAIN items |-> ExecTime(execution_times, items[i][1], items[i][2])]
    IN  [raised |-> \E i \in DOMAIN items : times[i].raised,
         results |-> [i \in DOMAIN items |->
                        Row(items[i][1], items[i][2], cd[items[i]], times[i].value,
                            SizeOf(repo_sizes, items[i][1]))]]

\* ----------------------------------------------- _calculate_statistics
\* Series.sum() of a column
RECURSIVE SumSeq(_)
SumSeq(ns) == IF ns = <<>> THEN 0 ELSE Head(ns) + SumSeq(Tail(ns))

\* dict.update in place of Counter.update: a count replaces the count of
\* its key instead of adding to it
RECURSIVE UpdateAll_Overwrite(_, _)
UpdateAll_Overwrite(rows, counter) ==
    IF rows = <<>>
    THEN counter
    ELSE UpdateAll_Overwrite(Tail(rows),
                   [key \in CounterKeys |->
                       IF Head(rows).Component_Types[key] > 0
                       THEN Head(rows).Component_Types[key]
                       ELSE counter[key]])

\* all_component_types.update(comp_types) for each row
RECURSIVE UpdateAll(_, _)
UpdateAll(rows, counter) ==
    IF rows = <<>>
    THEN counter
    ELSE UpdateAll(Tail(rows),
                   [key \in CounterKeys |-> counter[key] + Head(rows).Component_Types[key]])

\* a quotient the code computes in floating point, kept as a fraction
Fraction(num, den) == [num |-> num, den |-> den]

\* the columns of a table, booleans counted as 0 and 1
TotalComponentsOf(rows) == [i \in DOMAIN rows |-> rows[i].Total_Components]

IsEmptyOf(rows) == [i \in DOMAIN rows |-> IF rows[i].Is_Empty THEN 1 ELSE 0]

ExecTimeOf(rows) == [i \in DOMAIN rows |-> TheValue(rows[i].Execution_Time)]

\* the mean of the non-empty records taken over all records of the tool
ToolStats_NonEmptyOverAll(tool_df) ==
    LET non_empty_df == SelectSeq(tool_df, LAMBDA row : ~row.Is_Empty)
        timed == SelectSeq(tool_df, LAMBDA row : row.Execution_Time # None)
    IN  [total_repos |-> Len(tool_df),
         empty_cboms |-> SumSeq(IsEmptyOf(tool_df)),
         non_empty_cboms |-> Len(non_empty_df),
         empty_percentage |-> Fraction(100 * SumSeq(IsEmptyOf(tool_df)), Len(tool_df)),
         avg_components |-> Fraction(SumSeq(TotalComponentsOf(tool_df)), Len(tool_df)),
         avg_components_non_empty |->
             IF non_empty_df # <<>>
             THEN Fraction(SumSeq(TotalComponentsOf(non_empty_df)), Len(tool_df))
             ELSE Fraction(0, 1),
         total_components |-> SumSeq(TotalComponentsOf(tool_df)),
         avg_execution_time |->
             IF timed # <<>>
             THEN Some(Fraction(SumSeq(ExecTimeOf(timed)), Len(timed)))
             ELSE None,
         component_types |-> UpdateAll(tool_df, Counter)]

\* mean(skipna=False) with a missing duration read as 0: the missing
\* records stay in the divisor
ToolStats_KeepNa(tool_df) ==
    LET non_empty_df == SelectSeq(tool_df, LAMBDA row : ~row.Is_Empty)
        timed == SelectSeq(tool_df, LAMBDA row : row.Execution_Time # None)
    IN  [total_repos |-> Len(tool_df),
         empty_cboms |-> SumSeq(IsEmptyOf(tool_df)),
         non_empty_cboms |-> Len(non_empty_df),
         empty_percentage |-> Fraction(100 * SumSeq(IsEmptyOf(tool_df)), Len(tool_df)),
         avg_components |-> Fraction(SumSeq(TotalComponentsOf(tool_df)), Len(tool_df)),
         avg_components_non_empty |->
             IF non_empty_df # <<>>
             THEN Fraction(SumSeq(TotalComponentsOf(non_empty_df)), Len(non_empty_df))
             ELSE Fraction(0, 1),
         total_components |-> SumSeq(TotalComponentsOf(tool_df)),
         avg_execution_time |->
             IF timed # <<>>
             THEN Some(Fraction(SumSeq(ExecTimeOf(timed)), Len(tool_df)))
             ELSE None,
         component_types |-> UpdateAll(tool_df, Counter)]

\* stats[tool]; mean(skipna=True) of a column without a value is NaN,
\* kept as None
ToolStats(tool_df) ==
    LET non_empty_df == SelectSeq(tool_df, LAMBDA row : ~row.Is_Empty)
        timed == SelectSeq(tool_df, LAMBDA row : row.Execution_Time # None)
    IN  [total_repos |-> Len(tool_df),
         empty_cboms |-> SumSeq(IsEmptyOf(tool_df)),
         non_empty_cboms |-> Len(non_empty_df),
         empty_percentage |-> Fraction(100 * SumSeq(IsEmptyOf(tool_df)), Len(tool_df)),
         avg_components |-> Fraction(SumSeq(TotalComponentsOf(tool_df)), Len(tool_df)),
         avg_components_non_empty |->
             IF non_empty_df # <<>>
             THEN Fraction(SumSeq(TotalComponentsOf(non_empty_df)), Len(non_empty_df))
             ELSE Fraction(0, 1),
         total_components |-> SumSeq(TotalComponentsOf(tool_df)),
         avg_execution_time |->
             IF timed # <<>>
             THEN Some(Fraction(SumSeq(ExecTimeOf(timed)), Len(timed)))
             ELSE None,
         component_types |-> UpdateAll(tool_df, Counter)]

\* statistics over the whole table
ToolDf_Unfiltered(df, tool) == df

\* tool_df = df[df['Tool'] == tool]
ToolDf(df, tool) == SelectSeq(df, LAMBDA row : row.Tool = tool)

\* stats: a tool without a row has no entry
_calculate_statistics(df) ==
    [tool \in {t \in Tools : ToolDf(df, t) # <<>>} |-> ToolStats(ToolDf(df, tool))]

\* ----------------------------------------------------------------- state
VARIABLES
    tool_dirs,        \* the tool directories that exist under cbom_dir
    cbom_files,       \* (tool, file name) -> content of the file
    durations,        \* metrics_dir/durations.json
    comparison_data,  \* self.comparison_data: (repository, tool) -> record
    report,           \* what the last generate_comparison_report call did
    timestamp_dir,    \* self.timestamp_dir
    reports,          \* reports_dir: timestamp directory -> files in it
    now,              \* the clock, in minutes
    s_tool,           \* analyze_single_cbom alone: the tool identifier
    s_payload,        \* ... the payload
    s_result,         \* ... the outcome of the call
    s_pc,             \* ... "call" before the call, "done" after it
    cbomkit,          \* the module-level CBOMkitClient: its attributes
    ws,               \* its WebSocket: "none", "open" or "closed"
    k_calls,          \* generate_cbom calls begun on the client
    k_result,         \* what the last generate_cbom call returned
    x_calls,          \* cdxgen's generate_cbom: calls made
    x_file,           \* ... the output file cbom.json
    x_result,         \* ... what the last call returned
    legacy,           \* the .csv files in the root of reports_dir
    listed            \* what the last list_reports call returned

svars == <<s_tool, s_payload, s_result, s_pc>>

kvars == <<cbomkit, ws, k_calls, k_result>>

xvars == <<x_calls, x_file, x_result>>

avars == <<kvars, xvars>>

rvars == <<legacy, listed>>

envvars == <<tool_dirs, cbom_files, durations>>

pvars == <<comparison_data, report, timestamp_dir, reports, now>>

vars == <<envvars, pvars, svars, avars, rvars>>

\* most files in the tool directories at the start
MaxFiles == 2

\* what a call reports: status "none" before the first call, "returned",
\* or the step that raised when an exception left the call
Report(status, df, stats, timestamp_name, repo_sizes) ==
    [status |-> status, df |-> df, stats |-> stats, timestamp_name |-> timestamp_name,
     repo_sizes |-> repo_sizes]

\* a call that an exception left, and the step that raised it
Raised(step, repo_sizes) == Report(step, <<>>, <<>>, None, repo_sizes)

RaisedSteps == {"analyze_all_cboms", "_fetch_all_repo_sizes", "results"}

NoReport == Report("none", <<>>, <<>>, None, <<>>)

\* the state of the analyzer after __init__
ProgramInit ==
    /\ comparison_data = <<>>
    /\ report = NoReport
    /\ timestamp_dir = None
    /\ reports = <<>>
    /\ now = 0

SingleIdle ==
    /\ s_tool = "cbomkit"
    /\ s_payload = ScalarPayload
    /\ s_result = Raise("")
    /\ s_pc = "idle"

\* a reports directory without legacy files, and no list_reports call yet
NoLegacy ==
    /\ legacy = {}
    /\ listed = <<>>

\* ------------------------------------------------------------ adapters
\* most generate_cbom calls made on one adapter
MaxCalls == 3

\* the pair (CBOM data, duration) a generate_cbom returns
Pair(cbom_data, duration) == [cbom_data |-> cbom_data, duration |-> duration]

\* the attributes of a CBOMkitClient that its methods read and write; a
\* CBOM is named by the call whose scan the server made it for, a time by
\* the call during which it was taken
Client(success, cbom_data, start_time, duration, old_message) ==
    [success |-> success, cbom_data |-> cbom_data, start_time |-> start_time,
     duration |-> duration, old_message |-> old_message]

\* CBOMkitClient.__init__
ClientInit == Client(FALSE, None, None, None, "")

CHECKOUT_DONE == "Cloning git repository: Checking out files done"

FINISHED == "Finished"

\* what the server sends: text that is not JSON, JSON that is not an
\* object, or an object with a type and a message
Messages ==
    {[k |-> "undecodable", type |-> "", text |-> ""],
     [k |-> "not_object", type |-> "", text |-> ""]}
    \cup {[k |-> "object", type |-> ty, text |-> te] :
             ty \in {"LABEL", "DETECTION"},
             te \in {"Receiving objects 50%", CHECKOUT_DONE, FINISHED}}

\* how the request for the CBOM ends
GetOutcomes == {"ok", "RequestException", "JSONDecodeError"}

\* end_time - start_time, by the calls that took the two times
Elapsed(start_time, end_time) == [start_time |-> start_time, end_time |-> end_time]

\* _get_cbom during the call numbered call
_get_cbom(client, call, outcome) ==
    IF outcome = "ok"
    THEN [ok |-> TRUE,
          client |-> [client EXCEPT
                         !.cbom_data = Some(call),
                         !.duration = IF client.start_time # None
                                      THEN Some(Elapsed(TheValue(client.start_time), call))
                                      ELSE @]]
    ELSE [ok |-> FALSE, client |-> client]

\* _on_message: the client afterwards and whether the WebSocket was closed
_on_message(client, message, call, outcome) ==
    IF message.k # "object"
    THEN [client |-> client, close |-> TRUE]
    ELSE LET shown == IF message.type = "LABEL" /\ message.text # client.old_message
                      THEN [client EXCEPT !.old_message = message.text]
                      ELSE client
         IN  IF message.text = CHECKOUT_DONE
             THEN [client |-> [shown EXCEPT !.start_time = Some(call)], close |-> FALSE]
             ELSE IF message.text = FINISHED
                  THEN LET got == _get_cbom(shown, call, outcome)
                       IN  [client |-> [got.client EXCEPT !.success = got.ok],
                            close |-> TRUE]
                  ELSE [client |-> shown, close |-> FALSE]

\* the return statement of CBOMkitClient.generate_cbom
ReturnOf(client) ==
    IF client.success THEN Pair(client.cbom_data, client.duration) ELSE Pair(None, None)

KitIdle ==
    /\ cbomkit = ClientInit
    /\ ws = "none"
    /\ k_calls = 0
    /\ k_result = Pair(None, None)

\* generate_cbom creates the WebSocketApp and enters run_forever
KitGenerateCbom ==
    /\ ws # "open"
    /\ k_calls < MaxCalls
    /\ ws' = "open"
    /\ k_calls' = k_calls + 1
    /\ UNCHANGED <<cbomkit, k_result>>

\* a message arrives; when the handler closes the WebSocket run_forever
\* ends and generate_cbom returns
KitOnMessage ==
    /\ ws = "open"
    /\ \E message \in Messages, outcome \in GetOutcomes :
          LET handled == _on_message(cbomkit, message, k_calls, outcome)
          IN  /\ cbomkit' = handled.client
              /\ IF handled.close
                 THEN /\ ws' = "closed"
                      /\ k_result' = ReturnOf(handled.client)
                 ELSE UNCHANGED <<ws, k_result>>
    /\ UNCHANGED k_calls

\* _on_error (no connection, or the connection is lost): the WebSocket is
\* closed, run_forever ends and generate_cbom returns
KitOnError ==
    /\ ws = "open"
    /\ ws' = "closed"
    /\ k_result' = ReturnOf(cbomkit)
    /\ UNCHANGED <<cbomkit, k_calls>>

\* cdxgen: what cbom.json holds
CdxContents == {"dict", "invalid"}

\* how the cbom command ends: generate_cbom_from_file's pair (success,
\* duration), and what it left in the output file ("same": nothing written)
CdxRuns ==
    {[success |-> FALSE, duration |-> None, written |-> w] : w \in {"same", "invalid"}}
    \cup {[success |-> TRUE, duration |-> Some(d), written |-> w] :
             d \in {3, 7}, w \in {"same"} \cup CdxContents}

\* cdxgen.generate_cbom: the returned pair and the output file afterwards
cdxgen_generate_cbom(file, cloned, run) ==
    IF ~cloned
    THEN [result |-> Pair(None, None), file |-> file]
    ELSE LET output == IF run.written = "same" THEN file ELSE run.written
         IN  IF ~run.success
             THEN [result |-> Pair(None, None), file |-> output]
             ELSE [result |-> Pair(IF output = "dict" THEN Some(output) ELSE None,
                                   run.duration),
                   file |-> "absent"]

CdxIdle ==
    /\ x_calls = 0
    /\ x_file = "absent"
    /\ x_result = Pair(None, None)

CdxGenerateCbom ==
    /\ x_calls < MaxCalls
    /\ x_calls' = x_calls + 1
    /\ \E cloned \in BOOLEAN, run \in CdxRuns :
          LET out == cdxgen_generate_cbom(x_file, cloned, run)
          IN  /\ x_result' = out.result
              /\ x_file' = out.file

\* the tool adapters as the benchmark and test commands call them
AdaptersInit ==
    /\ ProgramInit
    /\ SingleIdle
    /\ tool_dirs = {}
    /\ cbom_files = <<>>
    /\ durations = MetricsFile("absent", <<>>)
    /\ KitIdle
    /\ CdxIdle
    /\ NoLegacy

AdaptersNext ==
    \/ (KitGenerateCbom /\ UNCHANGED <<envvars, pvars, svars, xvars, rvars>>)
    \/ (KitOnMessage /\ UNCHANGED <<envvars, pvars, svars, xvars, rvars>>)
    \/ (KitOnError /\ UNCHANGED <<envvars, pvars, svars, xvars, rvars>>)
    \/ (CdxGenerateCbom /\ UNCHANGED <<envvars, pvars, svars, kvars, rvars>>)

SpecAdapters == AdaptersInit /\ [][AdaptersNext]_vars

\* the files a directory tree holds: at most MaxFiles files, each in a
\* tool directory that exists; a file that is not .json holds anything
Slots == Tools \X FileNames

FileSystems ==
    UNION {{fs \in [S -> UNION {FileContents(p[1], p[2]) : p \in S}] :
               \A p \in S : fs[p] \in FileContents(p[1], p[2])} :
           S \in {T \in SUBSET Slots : Cardinality(T) <= MaxFiles}}

\* a small tree with every kind of record
SampleFiles ==
    [p \in {<<"cbomkit", FileName("r1", ".json")>>, <<"cdxgen", FileName("r1", ".json")>>,
            <<"cdxgen", FileName("r2", ".json")>>} |->
        IF p[1] = "cbomkit" THEN Json(ScanOf(TwoComponents))
        ELSE IF p[2].stem = "r1" THEN Json(FlatPayload(TwoComponents))
        ELSE Json(FlatPayload(NoComponents))]

\* either any small tree and no metrics file, or the sample tree and any
\* metrics file; the tool directories that exist are those that hold files
Init ==
    /\ ProgramInit
    /\ SingleIdle
    /\ KitIdle
    /\ CdxIdle
    /\ NoLegacy
    /\ \/ /\ cbom_files \in FileSystems
          /\ durations = MetricsFile("absent", <<>>)
       \/ /\ cbom_files = SampleFiles
          /\ durations \in MetricsFiles
    /\ tool_dirs = {p[1] : p \in DOMAIN cbom_files}

\* a file is deleted from a tool directory
DeleteFile ==
    /\ \E p \in DOMAIN cbom_files :
          cbom_files' = [q \in DOMAIN cbom_files \ {p} |-> cbom_files[q]]
    /\ UNCHANGED <<tool_dirs, durations, pvars, svars, avars, rvars>>

\* _create_timestamp_directory, the chart files and export_to_csv
WriteReport(rs, timestamp, save_csv) ==
    [t \in DOMAIN rs \cup {timestamp} |->
        IF t = timestamp
        THEN [charts |-> TRUE,
              csv |-> save_csv \/ (t \in DOMAIN rs /\ rs[t].csv)]
        ELSE rs[t]]

\* generate_comparison_report without the early return of an empty table
GenerateComparisonReport_NoEarlyReturn ==
    LET analysed == analyze_all_cboms(comparison_data, tool_dirs, cbom_files)
        execution_times == _load_execution_times(durations)
    IN  /\ comparison_data' = analysed.data
        /\ UNCHANGED <<envvars, now, svars, avars, rvars>>
        /\ \E api \in Apis :
              LET fetched == _fetch_all_repo_sizes(execution_times, api)
                  joined == JoinResults(analysed.data, execution_times, fetched.repo_sizes)
                  df == joined.results
              IN  IF analysed.raised \/ fetched.raised \/ joined.raised
                  THEN /\ report' = IF analysed.raised
                                    THEN Raised("analyze_all_cboms", <<>>)
                                    ELSE IF fetched.raised
                                         THEN Raised("_fetch_all_repo_sizes", fetched.repo_sizes)
                                         ELSE Raised("results", fetched.repo_sizes)
                       /\ UNCHANGED <<timestamp_dir, reports>>
                  ELSE /\ report' = Report("returned", df, _calculate_statistics(df),
                                           Some(now), fetched.repo_sizes)
                       /\ timestamp_dir' = Some(now)
                       /\ \E save_csv \in BOOLEAN :
                             reports' = WriteReport(reports, now, save_csv)

\* generate_comparison_report(save_csv), with the GitHub API in state api
GenerateComparisonReport ==
    LET analysed == analyze_all_cboms(comparison_data, tool_dirs, cbom_files)
        execution_times == _load_execution_times(durations)
    IN  /\ comparison_data' = analysed.data
        /\ UNCHANGED <<envvars, now, svars, avars, rvars>>
        /\ \E api \in Apis :
              LET fetched == _fetch_all_repo_sizes(execution_times, api)
                  joined == JoinResults(analysed.data, execution_times, fetched.repo_sizes)
                  df == joined.results
              IN  IF analysed.raised \/ fetched.raised \/ joined.raised
                  THEN /\ report' = IF analysed.raised
                                    THEN Raised("analyze_all_cboms", <<>>)
                                    ELSE IF fetched.raised
                                         THEN Raised("_fetch_all_repo_sizes", fetched.repo_sizes)
                                         ELSE Raised("results", fetched.repo_sizes)
                       /\ UNCHANGED <<timestamp_dir, reports>>
                  ELSE IF df = <<>>
                       THEN /\ report' = Report("returned", <<>>, <<>>, None,
                                                fetched.repo_sizes)
                            /\ UNCHANGED <<timestamp_dir, reports>>
                       ELSE /\ report' = Report("returned", df, _calculate_statistics(df),
                                                Some(now), fetched.repo_sizes)
                            /\ timestamp_dir' = Some(now)
                            /\ \E save_csv \in BOOLEAN :
                                  reports' = WriteReport(reports, now, save_csv)

Next == GenerateComparisonReport \/ DeleteFile

Spec == Init /\ [][Next]_vars

\* analyze_single_cbom applied to one payload and one tool identifier
SingleInit ==
    /\ ProgramInit
    /\ tool_dirs = {}
    /\ cbom_files = <<>>
    /\ durations = MetricsFile("absent", <<>>)
    /\ s_tool \in ToolIds
    /\ s_payload \in Payloads
    /\ s_result = Raise("")
    /\ s_pc = "call"
    /\ KitIdle
    /\ CdxIdle
    /\ NoLegacy

AnalyzeSingle ==
    /\ s_pc = "call"
    /\ s_result' = analyze_single_cbom(s_payload, s_tool)
    /\ s_pc' = "done"
    /\ UNCHANGED <<s_tool, s_payload, envvars, pvars, avars, rvars>>

SpecSingle == SingleInit /\ [][AnalyzeSingle]_vars

\* ------------------------------------------- the reports directory
\* latest minute of the clock
MaxClock == 2

\* the characters of the paths, in the order of their code points
CHARS ==
    <<"-", ".", "/", "0", "1", "2", "3", "4", "5", "6", "7", "8", "9",
      "_", "a", "b", "c", "i", "m", "n", "o", "p", "r", "s", "v">>

Ord(ch) == CHOOSE i \in DOMAIN CHARS : CHARS[i] = ch

\* a < b for two strings, as Python compares them
RECURSIVE LessStr(_, _)
LessStr(a, b) ==
    IF b = <<>> THEN FALSE
    ELSE IF a = <<>> THEN TRUE
    ELSE IF Head(a) # Head(b) THEN Ord(Head(a)) < Ord(Head(b))
    ELSE LessStr(Tail(a), Tail(b))

Digit(n) == CHARS[n + 4]

\* the day and the hour of the runs, as strftime("%Y-%m-%d-%H-") writes them
DATE_HOUR == <<"2", "0", "2", "5", "-", "0", "6", "-", "1", "0", "-", "1", "3", "-">>

\* _generate_timestamp at minute t of that hour: "%M" is two digits
_generate_timestamp(t) == DATE_HOUR \o <<Digit((t \div 10) % 6), Digit(t % 10)>>

CBOM_COMPARISON_CSV ==
    <<"c", "b", "o", "m", "_", "c", "o", "m", "p", "a", "r", "i", "s", "o", "n",
      ".", "c", "s", "v">>

\* os.path.join(item, file)
Join(item, file) == item \o <<"/">> \o file

\* a .csv file in the root of reports_dir and the minute it was created
LegacyFile(name, created) == [name |-> name, created |-> created]

LegacyFiles == {LegacyFile(CBOM_COMPARISON_CSV, 0)}

\* csv_files.sort(reverse=True)
RECURSIVE SortReverse(_)
SortReverse(S) ==
    IF S = {}
    THEN <<>>
    ELSE LET greatest == CHOOSE x \in S : \A y \in S \ {x} : LessStr(y, x)
         IN  <<greatest>> \o SortReverse(S \ {greatest})

\* list_reports: the relative paths of the .csv files of the timestamp
\* directories and of the root, sorted in reverse
list_reports(rs, root) ==
    LET in_directories == {Join(_generate_timestamp(t), CBOM_COMPARISON_CSV) :
                              t \in {d \in DOMAIN rs : rs[d].csv}}
        in_root == {f.name : f \in root}
    IN  SortReverse(in_directories \cup in_root)

ListReports ==
    /\ listed' = list_reports(reports, legacy)
    /\ UNCHANGED <<envvars, pvars, svars, avars, legacy>>

\* a minute passes
Tick ==
    /\ now < MaxClock
    /\ now' = now + 1
    /\ UNCHANGED <<envvars, comparison_data, report, timestamp_dir, reports, svars, avars,
                   rvars>>

\* the analyze and load-analysis commands over the minutes of an hour, on
\* a tree with or without CBOM files and a reports directory with or
\* without a legacy file
ReportsInit ==
    /\ ProgramInit
    /\ SingleIdle
    /\ KitIdle
    /\ CdxIdle
    /\ cbom_files \in {<<>>, SampleFiles}
    /\ tool_dirs = {p[1] : p \in DOMAIN cbom_files}
    /\ durations = MetricsFile("absent", <<>>)
    /\ legacy \in SUBSET LegacyFiles
    /\ listed = <<>>

ReportsNext == GenerateComparisonReport \/ ListReports \/ Tick

SpecReports == ReportsInit /\ [][ReportsNext]_vars

\* ================================================================ claims
\* the .json files now in the tool directories, as (tool, file name)
JsonFiles == {p \in DOMAIN cbom_files : endswith_json(p[2]) /\ p[1] \in tool_dirs}

\* the key of comparison_data a file is recorded under
KeyOf(p) == <<splitext0(p[2]), p[1]>>

Called == report.status # "none"

Returned == report.status = "returned"

\* rows of the result table of the last call that carry the pair p
RowsOf(p) == {i \in DOMAIN report.df : <<report.df[i].Repository, report.df[i].Tool>> = p}

\* ---------------------------------------------------------------- C1
\* C1: every analysis record stored in comparison_data, whether returned
\* by analyze_single_cbom or written in the except branch, has is_empty
\* true exactly when its total_components is 0.
C1_EmptyIffZero ==
    \A p \in DOMAIN comparison_data :
        comparison_data[p].is_empty <=> (comparison_data[p].total_components = 0)

\* comparison_data holds an error record and an analysis with components
C1_Witness ==
    /\ \E p \in DOMAIN comparison_data :
          comparison_data[p].error # None /\ comparison_data[p].is_empty
    /\ \E p \in DOMAIN comparison_data :
          comparison_data[p].total_components > 0 /\ ~comparison_data[p].is_empty

\* ---------------------------------------------------------------- C2
\* the components array of a payload for a tool: the top-level "components"
\* of a flat object for cdxgen and deepseek, the "components" of the "bom"
\* of the first scan result otherwise; <<>> when there is no such array
ComponentsArray(cbom_data, tool_name) ==
    IF lower(tool_name) \in FlatTools
    THEN IF cbom_data.k = "dict" /\ cbom_data.components.k = "list"
         THEN cbom_data.components.items
         ELSE <<>>
    ELSE IF /\ cbom_data.k = "list"
            /\ Len(cbom_data.elems) > 0
            /\ cbom_data.elems[1].k = "dict"
            /\ cbom_data.elems[1].bom.k = "dict"
            /\ cbom_data.elems[1].bom.components.k = "list"
         THEN cbom_data.elems[1].bom.components.items
         ELSE <<>>

\* C2: whenever analyze_single_cbom returns, total_components is
\* non-negative and equals the length of the payload's components array,
\* and is 0 when the payload has no such array.
C2_CountIsArrayLength ==
    (s_pc = "done" /\ ~s_result.raised)
        => /\ s_result.total_components >= 0
           /\ s_result.total_components = Len(ComponentsArray(s_payload, s_tool))

\* ---------------------------------------------------------------- C3
\* C3: for each tool in the statistics, the values of the aggregated
\* component_types sum to total_components, which is the sum of
\* Total_Components over the tool's rows; each row's own type counts sum
\* to its Total_Components.
C3_TypeCountsSumToTotal ==
    Returned =>
        /\ \A i \in DOMAIN report.df :
              CounterSum(report.df[i].Component_Types) = report.df[i].Total_Components
        /\ \A tool \in DOMAIN report.stats :
              /\ CounterSum(report.stats[tool].component_types)
                    = report.stats[tool].total_components
              /\ report.stats[tool].total_components
                    = SumSeq([i \in DOMAIN report.df |->
                                 IF report.df[i].Tool = tool
                                 THEN report.df[i].Total_Components ELSE 0])

\* a tool with two non-empty records that share a type
C3_Witness ==
    /\ Returned
    /\ \E tool \in DOMAIN report.stats :
          /\ report.stats[tool].non_empty_cboms = 2
          /\ \E key \in CounterKeys : report.stats[tool].component_types[key] >= 2

\* ---------------------------------------------------------------- C4
\* C4: a .json file that is not valid JSON does not make analyze_all_cboms
\* raise; its (repository, tool) holds the record with total_components 0,
\* is_empty true, an empty counter and the failure text under 'error'.
C4_BadJsonRecorded ==
    Called =>
        /\ report.status # "analyze_all_cboms"
        /\ \A p \in JsonFiles :
              ~cbom_files[p].valid
                  => /\ KeyOf(p) \in DOMAIN comparison_data
                     /\ comparison_data[KeyOf(p)]
                           = [total_components |-> 0, is_empty |-> TRUE,
                              component_types |-> [key \in CounterKeys |-> 0],
                              error |-> {ERR_JSON}]

\* a call analysed a file that is not valid JSON
C4_Witness ==
    /\ Called
    /\ \E p \in JsonFiles : ~cbom_files[p].valid /\ KeyOf(p) \in DOMAIN comparison_data

\* ---------------------------------------------------------------- C5
\* whether the analysis of the file p fails
Fails(p) ==
    \/ ~cbom_files[p].valid
    \/ analyze_single_cbom(cbom_files[p].data, p[1]).raised

\* position of the file p in the order the batch visits the files
Position(p) ==
    LET t == CHOOSE i \in DOMAIN TOOL_NAMES : TOOL_NAMES[i] = p[1]
        f == CHOOSE i \in DOMAIN FILE_ORDER : FILE_ORDER[i] = p[2]
    IN  t * (Len(FILE_ORDER) + 1) + f

\* C5: after analyze_all_cboms, whatever files failed, every .json file of
\* every existing tool directory has its record under (file stem, tool),
\* an error record exactly when that file itself fails; a missing tool
\* directory leaves the files of the other directories analysed.
C5_EveryFileRecorded ==
    Called =>
        /\ report.status # "analyze_all_cboms"
        /\ \A p \in JsonFiles :
              /\ KeyOf(p) \in DOMAIN comparison_data
              /\ (comparison_data[KeyOf(p)].error # None) <=> Fails(p)

\* a tool directory is missing, and a file that failed was visited before
\* a file that did not
C5_Witness ==
    /\ Called
    /\ tool_dirs # Tools
    /\ "cbomkit" \notin tool_dirs
    /\ \E p \in JsonFiles, q \in JsonFiles :
          /\ Position(p) < Position(q)
          /\ Fails(p)
          /\ ~Fails(q)
          /\ comparison_data[KeyOf(q)].total_components > 0

\* ---------------------------------------------------------------- C6
\* whether the payload of a file parses but has a malformed shape for the
\* tool: the value where the components array is expected is not an array,
\* or a component cannot be tallied
Malformed(cbom_data, tool_name) ==
    LET c == IF lower(tool_name) \in FlatTools
             THEN IF cbom_data.k = "dict" THEN cbom_data.components ELSE NoComponents
             ELSE IF /\ cbom_data.k = "list"
                     /\ Len(cbom_data.elems) > 0
                     /\ cbom_data.elems[1].k = "dict"
                     /\ cbom_data.elems[1].bom.k = "dict"
                  THEN cbom_data.elems[1].bom.components
                  ELSE NoComponents
    IN  \/ c.k \in {"null", "scalar", "str", "obj"}
        \/ /\ c.k = "list"
           /\ \E i \in DOMAIN c.items :
                 \/ lower(tool_name) \notin FlatTools /\ c.items[i].cp = "null"
                 \/ c.items[i].type = UNHASHABLE /\ c.items[i].assetType = ABSENT

\* C6: a file whose JSON parses but whose extraction or tally fails is
\* recorded as the zero-count, empty, error-annotated record, and no
\* exception leaves analyze_all_cboms; a payload with a malformed shape is
\* never recorded with a positive component count.
C6_MalformedIsErrorRecord ==
    Called =>
        /\ report.status # "analyze_all_cboms"
        /\ \A p \in JsonFiles :
              (cbom_files[p].valid /\ Malformed(cbom_files[p].data, p[1]))
                  => /\ KeyOf(p) \in DOMAIN comparison_data
                     /\ comparison_data[KeyOf(p)].total_components = 0
                     /\ comparison_data[KeyOf(p)].is_empty
                     /\ comparison_data[KeyOf(p)].error # None

\* ---------------------------------------------------------------- C7
\* the key the specification gives for a component
ByType(comp) == IF comp.k = "dict" /\ comp.type # ABSENT THEN comp.type ELSE "unknown"

ByAssetType(comp) ==
    IF comp.k = "dict" /\ comp.cp = "dict" /\ comp.assetType # ABSENT
    THEN comp.assetType
    ELSE ByType(comp)

\* the components the call iterates over
Iterated == GetComponents(ExtractComponents(s_payload, s_tool)).items

\* C7 as stated: for every tool identifier, each component is tallied
\* under its cryptoProperties.assetType when present, otherwise under its
\* "type", otherwise under "unknown".
C7_AssetTypeForEveryTool ==
    (s_pc = "done" /\ ~s_result.raised)
        => \A key \in CounterKeys :
              s_result.component_types[key]
                  = Cardinality({i \in DOMAIN Iterated : ByAssetType(Iterated[i]) = key})

\* C7 as amended: for a tool identifier other than cdxgen and deepseek
\* (compared in lower case) each component is tallied under its
\* cryptoProperties.assetType when present, otherwise under its "type",
\* otherwise under "unknown"; for cdxgen and deepseek each component is
\* tallied under its "type", otherwise under "unknown", whatever its
\* cryptoProperties.
C7_AssetTypeForCbomkitOnly ==
    (s_pc = "done" /\ ~s_result.raised)
        => \A key \in CounterKeys :
              s_result.component_types[key]
                  = Cardinality({i \in DOMAIN Iterated :
                                    (IF lower(s_tool) \in FlatTools
                                     THEN ByType(Iterated[i])
                                     ELSE ByAssetType(Iterated[i])) = key})

\* a cbomkit call tallied a component under its assetType, not its type
C7_Witness ==
    /\ s_pc = "done"
    /\ ~s_result.raised
    /\ lower(s_tool) = "cbomkit"
    /\ \E i \in DOMAIN Iterated :
          /\ Iterated[i].type = "library"
          /\ Iterated[i].assetType = "protocol"
    /\ s_result.component_types["protocol"] >= 1
    /\ s_result.component_types["library"] = 0

\* ---------------------------------------------------------------- C8
\* C8: the result table holds exactly one record for each (repository,
\* tool) pair that has an analysis result in comparison_data, and no
\* record for any other pair; no pair appears twice.
C8_OneRowPerPair ==
    Returned =>
        /\ \A p \in DOMAIN comparison_data : Cardinality(RowsOf(p)) = 1
        /\ \A i \in DOMAIN report.df :
              <<report.df[i].Repository, report.df[i].Tool>> \in DOMAIN comparison_data
        /\ \A i \in DOMAIN report.df, j \in DOMAIN report.df :
              (report.df[i].Repository = report.df[j].Repository
                  /\ report.df[i].Tool = report.df[j].Tool) => i = j

\* a repository has records of two tools and another repository has one
C8_Witness ==
    /\ Returned
    /\ Len(report.df) >= 3
    /\ \E r \in Repos : {<<r, "cbomkit">>, <<r, "cdxgen">>} \subseteq DOMAIN comparison_data

\* ---------------------------------------------------------------- C9
\* the entries of durations.json, none when the file is absent or
\* unreadable
MetricsEntries == IF durations.k = "ok" THEN durations.data ELSE <<>>

HasRepoEntry(repo) == \E i \in DOMAIN MetricsEntries : MetricsEntries[i].repo = repo

HasToolEntry(repo, tool) ==
    \E i \in DOMAIN MetricsEntries :
        /\ MetricsEntries[i].repo = repo
        /\ \E j \in DOMAIN MetricsEntries[i].tools : MetricsEntries[i].tools[j].tool = tool

\* the metrics file holds something that is not missing data but broken
\* data: a tool entry that is not an object, or a URL that cannot be split
\* into owner and repository
BrokenMetrics ==
    \E i \in DOMAIN MetricsEntries :
        \E j \in DOMAIN MetricsEntries[i].tools :
            LET e == MetricsEntries[i].tools[j]
            IN  \/ e.k # "dict"
                \/ /\ e.url # None
                   /\ TheValue(e.url).form = "ssh"
                   /\ Len(TheValue(e.url).parts) # 2

RowsOfTool(tool) == {i \in DOMAIN report.df : report.df[i].Tool = tool}

EmptyRowsOfTool(tool) == {i \in RowsOfTool(tool) : report.df[i].Is_Empty}

\* C10: for each tool with a record, total_repos is the number of its
\* records, empty_cboms the number of those with Is_Empty, non_empty_cboms
\* their difference and empty_percentage 100 * empty_cboms / total_repos,
\* between 0 and 100; a tool with no record has no entry.
C10_CountsAndPercentage ==
    (Returned /\ report.df # <<>>) =>
        \A tool \in Tools :
            IF RowsOfTool(tool) = {}
            THEN tool \notin DOMAIN report.stats
            ELSE /\ tool \in DOMAIN report.stats
                 /\ LET st == report.stats[tool]
                    IN  /\ st.total_repos = Cardinality(RowsOfTool(tool))
                        /\ st.empty_cboms = Cardinality(EmptyRowsOfTool(tool))
                        /\ st.non_empty_cboms = st.total_repos - st.empty_cboms
                        /\ st.empty_percentage.num * st.total_repos
                              = 100 * st.empty_cboms * st.empty_percentage.den
                        /\ st.empty_percentage.den > 0
                        /\ 0 <= st.empty_percentage.num
                        /\ st.empty_percentage.num <= 100 * st.empty_percentage.den

\* one tool has an empty and a non-empty record, another tool has none
C10_Witness ==
    /\ Returned
    /\ \E tool \in DOMAIN report.stats :
          /\ report.stats[tool].total_repos = 2
          /\ report.stats[tool].empty_cboms = 1
    /\ \E tool \in Tools : tool \notin DOMAIN report.stats

\* --------------------------------------------------------------- C11
NonEmptyRowsOfTool(tool) == RowsOfTool(tool) \ EmptyRowsOfTool(tool)

\* sum of Total_Components over the rows with index in S
RECURSIVE ComponentsOver(_)
ComponentsOver(S) ==
    IF S = {}
    THEN 0
    ELSE LET i == CHOOSE i \in S : TRUE
         IN  report.df[i].Total_Components + ComponentsOver(S \ {i})

\* C11: for each tool in the statistics, avg_components * total_repos =
\* total_components; avg_components_non_empty * non_empty_cboms = the sum
\* of Total_Components over the tool's non-empty records, and it is 0 when
\* the tool has no non-empty record; the non-empty sum is total_components.
C11_AveragesTimesCounts ==
    Returned =>
        \A tool \in DOMAIN report.stats :
            LET st == report.stats[tool]
                non_empty_sum == ComponentsOver(NonEmptyRowsOfTool(tool))
            IN  /\ st.avg_components.den > 0
                /\ st.avg_components.num * st.total_repos
                      = st.total_components * st.avg_components.den
                /\ st.avg_components_non_empty.den > 0
                /\ st.avg_components_non_empty.num * st.non_empty_cboms
                      = non_empty_sum * st.avg_components_non_empty.den
                /\ NonEmptyRowsOfTool(tool) = {} => st.avg_components_non_empty.num = 0
                /\ non_empty_sum = st.total_components
                /\ st.total_components = ComponentsOver(RowsOfTool(tool))

\* a tool with an empty and a non-empty record: its two averages differ
C11_Witness ==
    /\ Returned
    /\ \E tool \in DOMAIN report.stats :
          /\ report.stats[tool].non_empty_cboms = 1
          /\ report.stats[tool].total_repos = 2
          /\ report.stats[tool].total_components = 2
          /\ report.stats[tool].avg_components = Fraction(2, 2)
          /\ report.stats[tool].avg_components_non_empty = Fraction(2, 1)

\* --------------------------------------------------------------- C12
\* the rows of a tool that have a duration
TimedRowsOfTool(tool) == {i \in RowsOfTool(tool) : report.df[i].Execution_Time # None}

\* sum of Execution_Time over the rows with index in S
RECURSIVE DurationsOver(_)
DurationsOver(S) ==
    IF S = {}
    THEN 0
    ELSE LET i == CHOOSE i \in S : TRUE
         IN  TheValue(report.df[i].Execution_Time) + DurationsOver(S \ {i})

\* C12: a tool's avg_execution_time is the mean over only its records that
\* have a duration: the sum and the divisor leave out the records without
\* one, and a tool none of whose records has a duration has no average,
\* the statistics being computed without an error all the same.
C12_MeanSkipsMissing ==
    Returned =>
        \A tool \in Tools :
            RowsOfTool(tool) # {} =>
                /\ tool \in DOMAIN report.stats
                /\ LET avg == report.stats[tool].avg_execution_time
                   IN  IF TimedRowsOfTool(tool) = {}
                       THEN avg = None
                       ELSE /\ avg # None
                            /\ TheValue(avg).den > 0
                            /\ TheValue(avg).num * Cardinality(TimedRowsOfTool(tool))
                                  = DurationsOver(TimedRowsOfTool(tool)) * TheValue(avg).den

\* one tool has a record with a duration and a record without, another
\* tool has records and no duration at all
C12_Witness ==
    /\ Returned
    /\ \E tool \in DOMAIN report.stats :
          /\ TimedRowsOfTool(tool) # {}
          /\ TimedRowsOfTool(tool) # RowsOfTool(tool)
          /\ report.stats[tool].avg_execution_time # None
    /\ \E tool \in DOMAIN report.stats :
          /\ TimedRowsOfTool(tool) = {}
          /\ report.stats[tool].avg_execution_time = None

\* --------------------------------------------------------------- C13
\* C13: every generate_cbom call on a CBOMkitClient, whatever calls came
\* before it, returns CBOM data only if the scan it started reached
\* "Finished" and its CBOM was retrieved, so only the CBOM of its own scan,
\* and returns (None, None) otherwise; never the CBOM of an earlier call.
C13_OnlyOwnCbom ==
    ws = "closed" =>
        /\ k_result.cbom_data # None => k_result.cbom_data = Some(k_calls)
        /\ k_result.cbom_data = None => k_result.duration = None

\* --------------------------------------------------------------- C14
\* C14: cdxgen's generate_cbom returns either (CBOM data dict, duration)
\* or (None, None): after a failed clone, a failed cbom command, or an
\* output file that is unreadable or not valid JSON, both elements of the
\* pair are None.
C14_DataOrNothing ==
    x_calls > 0 =>
        /\ x_result.cbom_data = None <=> x_result.duration = None
        /\ x_result.cbom_data # None => x_result.cbom_data = Some("dict")

\* --------------------------------------------------------------- C15
\* the minute the report at a listed path was created
CreatedAt(path) ==
    IF \E f \in legacy : f.name = path
    THEN (CHOOSE f \in legacy : f.name = path).created
    ELSE CHOOSE t \in DOMAIN reports :
             Join(_generate_timestamp(t), CBOM_COMPARISON_CSV) = path

\* C15: list_reports returns the CSV reports newest first: of two returned
\* reports the one created later comes before the one created earlier,
\* whether they lie in timestamp directories or in the root of reports_dir.
C15_NewestFirst ==
    \A i \in DOMAIN listed, j \in DOMAIN listed :
        CreatedAt(listed[i]) > CreatedAt(listed[j]) => i < j

\* --------------------------------------------------------------- C16
\* C16: a generate_comparison_report run that writes a report writes it
\* into a directory that did not exist before the run; no run changes the
\* files of a directory an earlier run made.
C16_NewDirectoryPerRun ==
    [][reports' # reports =>
          /\ DOMAIN reports' # DOMAIN reports
          /\ \A t \in DOMAIN reports : reports'[t] = reports[t]]_vars

\* --------------------------------------------------------------- C17
\* the (repository, tool) pairs of the .json files now in the directories
FilePairs == {KeyOf(p) : p \in JsonFiles}

\* C17: whatever calls and deletions came before, the records of a
\* generate_comparison_report call are exactly those of the .json files in
\* the tool directories at that call: a step of the call (it leaves the
\* files as they are) that returns ends with comparison_data and the
\* result table holding the pairs of those files and no others.
C17_RecordsMatchFiles ==
    [][(cbom_files' = cbom_files /\ report'.status = "returned")
          => /\ DOMAIN comparison_data' = FilePairs
             /\ {<<report'.df[i].Repository, report'.df[i].Tool>> : i \in DOMAIN report'.df}
                   = FilePairs]_vars

\* --------------------------------------------------------------- C18
\* C18: for tool cbomkit, a payload that is a flat object with a
\* "components" array is analysed by falling back to that array: its
\* components are counted.
C18_FlatFallbackForCbomkit ==
    (/\ s_pc = "done"
     /\ lower(s_tool) = "cbomkit"
     /\ s_payload.k = "dict"
     /\ s_payload.components.k = "list")
        => /\ ~s_result.raised
           /\ s_result.total_components = Len(s_payload.components.items)

\* --------------------------------------------------------------- C19
\* whether the first scan result of the payload has a "bom" object
FirstHasBom ==
    /\ s_payload.elems[1].k = "dict"
    /\ s_payload.elems[1].bom.k = "dict"

\* C19: for tool cbomkit and a payload list of scan results, the call
\* gives what it gives for the list of the first result alone, so the
\* components of later results change neither total_components nor
\* component_types; the count is that of the first result's "bom"
\* components array, and a first result without a "bom" object gives the
\* empty result whatever the later results hold.
C19_FirstScanResultOnly ==
    (/\ s_pc = "done"
     /\ lower(s_tool) = "cbomkit"
     /\ s_payload.k = "list"
     /\ Len(s_payload.elems) >= 1)
        => /\ s_result = analyze_single_cbom(ListPayload(<<s_payload.elems[1]>>), s_tool)
           /\ (FirstHasBom /\ s_payload.elems[1].bom.components.k = "list" /\ ~s_result.raised)
                 => s_result.total_components = Len(s_payload.elems[1].bom.components.items)
           /\ ~FirstHasBom
                 => s_result = Return(0, TRUE, Counter)

\* a cbomkit call on two scan results counted the two components of the
\* first and left out the library component of the second
C19_Witness ==
    /\ s_pc = "done"
    /\ lower(s_tool) = "cbomkit"
    /\ s_payload.k = "list"
    /\ Len(s_payload.elems) = 2
    /\ FirstHasBom
    /\ s_payload.elems[1].bom.components.k = "list"
    /\ Len(s_payload.elems[1].bom.components.items) = 2
    /\ s_payload.elems[2].bom.k = "dict"
    /\ s_payload.elems[2].bom.components = OneComp("library")
    /\ ~s_result.raised
    /\ s_result.total_components = 2
    /\ s_result.component_types["library"] = 0

\* --------------------------------------------------------------- C20
\* whether an entry of the repositories before the i-th one carries url
UrlSeenBefore(url, i) ==
    \E h \in 1..(i - 1) :
        \E j \in DOMAIN MetricsEntries[h].tools : MetricsEntries[h].tools[j].url = url

\* C20: _fetch_all_repo_sizes takes a repository's URL from any of its
\* tool entries: when it has returned, every repository of the metrics
\* data with a tool entry that carries a 'url' not processed before has a
\* size stored under its name, whichever tool entry holds the URL.
C20_UrlFromAnyToolEntry ==
    (Called /\ report.status \notin {"analyze_all_cboms", "_fetch_all_repo_sizes"}) =>
        \A i \in DOMAIN MetricsEntries :
            (\E j \in DOMAIN MetricsEntries[i].tools :
                LET e == MetricsEntries[i].tools[j]
                IN  e.k = "dict" /\ e.url # None /\ ~UrlSeenBefore(e.url, i))
                => MetricsEntries[i].repo \in DOMAIN report.repo_sizes

\* --------------------------------------------------------------- C21
\* whether the entry i of the metrics data carries the URL u in one of
\* its tool entries
CarriesUrl(i, u) ==
    \E j \in DOMAIN MetricsEntries[i].tools :
        /\ MetricsEntries[i].tools[j].k = "dict"
        /\ MetricsEntries[i].tools[j].url = Some(u)

\* the entries of the metrics data that share the URL u
Sharing(u) == {i \in DOMAIN MetricsEntries : CarriesUrl(i, u)}

\* whether a size entry is stored under the repository name of entry i;
\* every get_repo_sizes request that returns stores exactly one such entry
Stored(i) == MetricsEntries[i].repo \in DOMAIN report.repo_sizes

\* C21: within one _fetch_all_repo_sizes call that ran to its end,
\* get_repo_sizes is requested at most once per distinct URL, so at most
\* one of the repository names that share a URL has a size entry; when
\* several repository names of the metrics data share one URL, the size
\* is stored under the first of them, in file order, and under none of
\* the others.
C21_SizeUnderFirstSharer ==
    (Called /\ report.status \notin {"analyze_all_cboms", "_fetch_all_repo_sizes"})
        => \A u \in Urls :
              /\ Cardinality({i \in Sharing(u) : Stored(i)}) <= 1
              /\ Cardinality(Sharing(u)) >= 2
                    => \A i \in Sharing(u) :
                          Stored(i) <=> (\A h \in Sharing(u) : i <= h)

\* --------------------------------------------------------------- C22
\* C22: generate_comparison_report returns three values on every path
\* that returns.  When no analysis record exists they are the empty
\* table, the empty statistics and None, no timestamped directory exists
\* afterwards, no CSV or chart file is written and timestamp_dir is still
\* the None of __init__; when records exist the third value is the name
\* of the timestamped directory, which timestamp_dir holds and which
\* exists with its chart files.
C22_EmptyReportTriple ==
    Returned =>
        /\ {"df", "stats", "timestamp_name"} \subseteq DOMAIN report
        /\ comparison_data = <<>>
              => /\ report.df = <<>>
                 /\ report.stats = <<>>
                 /\ report.timestamp_name = None
                 /\ timestamp_dir = None
                 /\ reports = <<>>
        /\ comparison_data # <<>>
              => /\ report.df # <<>>
                 /\ report.timestamp_name # None
                 /\ report.timestamp_name = timestamp_dir
                 /\ TheValue(report.timestamp_name) \in DOMAIN reports
                 /\ reports[TheValue(report.timestamp_name)].charts

\* a call returned on a tree that holds a file but no .json file, so no
\* analysis record exists, and nothing was written
C22_Witness ==
    /\ Returned
    /\ cbom_files # <<>>
    /\ JsonFiles = {}
    /\ comparison_data = <<>>
    /\ report.timestamp_name = None
    /\ timestamp_dir = None
    /\ reports = <<>>

\* --------------------------------------------------------------- C23
\* whether the URL u cannot be split into a GitHub owner and repository
Unparseable(u) ==
    \/ u.form = "other"
    \/ u.form = "https" /\ Len(u.parts) < 2
    \/ u.form = "ssh" /\ Len(u.parts) # 2

\* C23: get_repo_sizes never raises for a URL taken from the metrics
\* data, so no generate_comparison_report call is aborted inside
\* _fetch_all_repo_sizes; for a URL that cannot be parsed into a GitHub
\* owner and repository, SSH-style URLs with extra path segments
\* included, it returns (None, None), which is what is stored for the
\* repository.
C23_BadUrlDoesNotAbort ==
    Called =>
        /\ report.status # "_fetch_all_repo_sizes"
        /\ report.status # "analyze_all_cboms"
              => \A i \in DOMAIN MetricsEntries :
                    LET url == FirstUrl(MetricsEntries[i].tools)
                    IN  (url # None /\ Unparseable(TheValue(url)) /\ ~UrlSeenBefore(url, i))
                            => /\ Stored(i)
                               /\ report.repo_sizes[MetricsEntries[i].repo]
                                     = Sizes(None, None)

====
